---- MODULE Spec2Model ----
(***************************************************************************)
(* Model of the audit pipeline of SmartContract-Auditor-Agent:             *)
(*   - SlitherAnalyzer (src/core/analyzer/slither_analyzer.py): the static  *)
(*     analysis adapter, its subprocess classification, the normalisation  *)
(*     of the analyzer's JSON and the Hedera domain checks;                *)
(*   - LLMProcessor (src/core/llm/processor.py): the explain / fix / test / *)
(*     compile workflow;                                                   *)
(*   - the scoring and the three callers of the pipeline                   *)
(*     (src/api/main.py, src/integrations/moonscape/moonscape_integration). *)
(*                                                                         *)
(* A contract source is a sequence of tokens: the markers the domain       *)
(* checks search for, a line break, other text, and a character that       *)
(* str.encode() cannot encode (a lone surrogate).                          *)
(***************************************************************************)
EXTENDS Integers, Sequences, FiniteSets, TLC

VARIABLES
    pc,              \* position of the operation under way
    caller,          \* who runs the pipeline: "adapter", "severity", "llm", "analyze", "hcs10", "moonscape"
    source,          \* contract_code
    hash_supplied,   \* request.contract_metadata.hash was given by the caller
    proc,            \* what subprocess.run did in the last analyze_contract call
    analysis,        \* outcome of analyzer.analyze_contract
    vulnerabilities, \* state["vulnerabilities"]: the list given to process_vulnerabilities
    explanations,    \* state["explanations"]
    fixes,           \* state["fixes"]
    test_cases,      \* state["test_cases"]
    idx,             \* loop position inside the running stage
    calls,           \* log of the model calls issued: <<[stage, id, text, ok]>>
    stages,          \* log of the workflow nodes entered
    pv,              \* outcome of process_vulnerabilities
    processed,       \* processed_vulnerabilities of the caller
    record,          \* the audit record / response of the caller
    contract_metadata, \* contract_metadata of the request, then of the audit record
    temp_files,      \* the temporary .sol files that exist, named by the call that made them
    ac_calls,        \* number of analyze_contract calls started
    severity_log,    \* the _severity_to_value calls made: <<[severity, value]>>
    checks,          \* what a direct call of _check_hedera_specific returned
    report,          \* outcome of the report step: file_id and nft_id
    instances,       \* the module globals _slither_analyzer and _llm_processor (0 is None)
    built,           \* number of objects constructed, per service
    threads,         \* the worker threads resolving get_analyzer / get_llm_processor
    clock,           \* int(datetime.now().timestamp())
    connections,     \* HCS10Agent.connections: connection_id -> connection
    created          \* number of create_connection calls that returned

vars == <<pc, caller, source, hash_supplied, proc, analysis, vulnerabilities,
          explanations, fixes, test_cases, idx, calls, stages, pv, processed, record,
          contract_metadata, temp_files, ac_calls, severity_log,
          checks, report, instances, built, threads, clock, connections, created>>

(***************************************************************************)
(* Bounds of the model.                                                    *)
(***************************************************************************)
MaxSrcLen == 2
MaxDetectors == 2
MaxVulns == 2
MaxCalls == 2
MaxThreads == 2
MaxCheckSrcLen == 3
MaxClock == 2
MaxConnections == 3

\* requests to the callers of the pipeline carry sources of at most two
\* tokens: a caller reads the source only to hash it and to hand it on
MaxApiSrcLen == IF MaxSrcLen < 2 THEN MaxSrcLen ELSE 2

(***************************************************************************)
(* General helpers.                                                        *)
(***************************************************************************)
Max(a, b) == IF a >= b THEN a ELSE b
Min(a, b) == IF a <= b THEN a ELSE b
SeqsUpTo(S, n) == UNION {[1..k -> S] : k \in 0..n}

(***************************************************************************)
(* Contract source text.                                                   *)
(***************************************************************************)
Tokens == {"x", "NL", "SURR", "payable", "require(msg.value", "associateToken",
           "TokenAssociate", "block.timestamp", "ConsensusTimestamp"}
Sources == SeqsUpTo(Tokens, MaxSrcLen)
ApiSources == SeqsUpTo(Tokens, MaxApiSrcLen)
CheckSources == SeqsUpTo(Tokens, MaxCheckSrcLen)

\* Python's `marker in contract_code`
Contains(src, tok) == \E i \in DOMAIN src : src[i] = tok

\* contract_code.encode() succeeds (no lone surrogate in the string)
Encodable(src) == ~Contains(src, "SURR")

\* contract_code.splitlines(): the lines between line breaks, no trailing
\* empty line after a final line break
RECURSIVE SplitLines(_)
SplitLines(src) ==
    IF src = <<>> THEN <<>>
    ELSE IF ~Contains(src, "NL") THEN <<src>>
    ELSE LET i == CHOOSE k \in DOMAIN src :
                     /\ src[k] = "NL"
                     /\ \A j \in 1..(k - 1) : src[j] # "NL"
         IN <<SubSeq(src, 1, i - 1)>> \o SplitLines(SubSeq(src, i + 1, Len(src)))

(***************************************************************************)
(* SlitherAnalyzer._severity_to_value                                      *)
(***************************************************************************)
\* mutant of SeverityToValue: the label is matched whatever its case
SeverityToValueAnyCase(severity) ==
    CASE severity \in {"High", "high", "HIGH"} -> 3
      [] severity \in {"Medium", "medium"} -> 2
      [] severity = "Low" -> 1
      [] OTHER -> 0

SeverityToValue(severity) ==
    CASE severity = "High" -> 3
      [] severity = "Medium" -> 2
      [] severity = "Low" -> 1
      [] severity = "Informational" -> 0
      [] OTHER -> 0

\* the labels _severity_to_value is tried on: the four it knows, other
\* casings of them, labels it does not know, and the empty string
SeverityLabels == {"High", "Medium", "Low", "Informational", "high", "HIGH", "medium",
                   "Critical", "Unknown", ""}

(***************************************************************************)
(* SlitherAnalyzer._check_hedera_specific                                  *)
(***************************************************************************)
HED001 == [id |-> "HED-001", title |-> "Missing Token Association",
           severity |-> "medium", severity_level_value |-> 2]
\* mutant of HED002: the finding is rated medium
HED002Medium == [id |-> "HED-002", title |-> "Unsafe HBAR Handling",
                 severity |-> "medium", severity_level_value |-> 2]

HED002 == [id |-> "HED-002", title |-> "Unsafe HBAR Handling",
           severity |-> "high", severity_level_value |-> 3]
HED003 == [id |-> "HED-003", title |-> "Improper Timestamp Usage",
           severity |-> "medium", severity_level_value |-> 2]

\* mutant of CheckHederaSpecific: the checks are chained with elif, the first
\* that applies ends them
CheckHederaSpecificFirstOnly(contract_code) ==
    IF ~Contains(contract_code, "associateToken") /\ ~Contains(contract_code, "TokenAssociate")
    THEN <<HED001>>
    ELSE IF Contains(contract_code, "payable") /\ ~Contains(contract_code, "require(msg.value")
    THEN <<HED002>>
    ELSE IF Contains(contract_code, "block.timestamp")
            /\ ~Contains(contract_code, "ConsensusTimestamp")
    THEN <<HED003>>
    ELSE <<>>

CheckHederaSpecific(contract_code) ==
    (IF ~Contains(contract_code, "associateToken") /\ ~Contains(contract_code, "TokenAssociate")
     THEN <<HED001>> ELSE <<>>)
    \o
    (IF Contains(contract_code, "payable") /\ ~Contains(contract_code, "require(msg.value")
     THEN <<HED002>> ELSE <<>>)
    \o
    (IF Contains(contract_code, "block.timestamp") /\ ~Contains(contract_code, "ConsensusTimestamp")
     THEN <<HED003>> ELSE <<>>)

(***************************************************************************)
(* What the Slither subprocess can do (subprocess.run in _run_slither) and *)
(* what its stdout holds once json.loads has read it.  A JSON document is   *)
(* null, an object, or some other value (an array, a number, a string).    *)
(* An object carries its detectors list (top-level "detectors", or         *)
(* "results"."detectors" in the success/results layout) and its "metrics". *)
(* stderr is only written to the log (lines 125-126, 138) and is left out. *)
(* Title, description, location and cwe of a finding are carried through   *)
(* unread and are left out of the records.                                 *)
(***************************************************************************)
Absent == "<absent>"     \* the key is not in the JSON object
JNull == "<null>"        \* the key holds JSON null

Detectors == {[impact |-> "High", has_elements |-> TRUE],
              [impact |-> Absent, has_elements |-> FALSE],
              [impact |-> JNull, has_elements |-> FALSE]}

JsonDoc(type, dets_kind, dets, metrics_kind) ==
    [type |-> type, dets_kind |-> dets_kind, dets |-> dets, metrics_kind |-> metrics_kind,
     complexity |-> 2, nLines |-> 20]

PyNone == JsonDoc("null", "absent", <<>>, "absent")
NonObject == JsonDoc("other", "absent", <<>>, "absent")
\* line 153: {"success": True, "results": {"detectors": []}}
EmptyResults == JsonDoc("object", "list", <<>>, "absent")

JsonObjects(n) ==
    {JsonDoc("object", "list", d, m) : d \in SeqsUpTo(Detectors, n), m \in {"absent", "object", "bad"}}
    \cup {JsonDoc("object", k, <<>>, m) : k \in {"absent", "bad"}, m \in {"absent", "object", "bad"}}

JsonValues(n) == {PyNone, NonObject} \cup JsonObjects(n)

\* stdout: "" | whitespace only | text that is not JSON | a JSON document
Stdouts(n) ==
    {[form |-> f, doc |-> PyNone] : f \in {"empty", "blank", "text"}}
    \cup {[form |-> "json", doc |-> d] : d \in JsonValues(n)}

RetCodes == {-9, 0, 1, 127}

NoProc == [kind |-> "none", returncode |-> 0, stdout |-> [form |-> "empty", doc |-> PyNone]]

ProcOutcomes(n) ==
    {[kind |-> k, returncode |-> 0, stdout |-> [form |-> "empty", doc |-> PyNone]] :
        k \in {"timeout", "not_found", "os_error"}}
    \cup {[kind |-> "completed", returncode |-> rc, stdout |-> out] :
        rc \in RetCodes, out \in Stdouts(n)}

\* result.stdout.strip() is non-empty
StripNonEmpty(out) == out.form \in {"text", "json"}

(***************************************************************************)
(* SlitherAnalyzer._run_slither: the parsed output, or None (PyNone).      *)
(***************************************************************************)
\* mutant of RunSlither: every non-zero exit code counts as a failure
RunSlitherStrictExit(p) ==
    IF p.kind # "completed" THEN PyNone
    ELSE IF p.returncode # 0 THEN PyNone
    ELSE IF StripNonEmpty(p.stdout)
         THEN IF p.stdout.form = "json" THEN p.stdout.doc
              ELSE PyNone
         ELSE EmptyResults

RunSlither(p) ==
    IF p.kind # "completed" THEN PyNone                      \* lines 155-163
    ELSE IF p.returncode = 127 THEN PyNone                   \* lines 132-134
    ELSE IF p.returncode > 0 /\ ~StripNonEmpty(p.stdout) THEN PyNone   \* lines 135-139
    ELSE IF StripNonEmpty(p.stdout)
         THEN IF p.stdout.form = "json" THEN p.stdout.doc    \* json.loads, lines 143-146
              ELSE PyNone                                    \* JSONDecodeError, lines 147-150
         ELSE EmptyResults                                   \* lines 151-153

(***************************************************************************)
(* SlitherAnalyzer._parse_slither_output                                   *)
(***************************************************************************)
\* str.lower() on the impact labels
Lower(s) ==
    CASE s = "High" -> "high"
      [] s = "Medium" -> "medium"
      [] s = "Low" -> "low"
      [] s = "Informational" -> "informational"
      [] OTHER -> s

\* detector.get("impact", "Medium")
ImpactOf(detector) == IF detector.impact = Absent THEN "Medium" ELSE detector.impact

\* mutant of VulnOfDetector: every finding gets the first id
VulnOfDetectorSameId(detector, n) ==
    [id |-> "VULN-1",
     title |-> "Unknown",
     severity |-> Lower(ImpactOf(detector)),
     severity_level_value |-> SeverityToValue(ImpactOf(detector)),
     code_snippet |-> IF detector.has_elements THEN "// In f" ELSE ""]

\* the vulnerability built from the n-th detector (lines 188-215)
VulnOfDetector(detector, n) ==
    [id |-> "VULN-" \o ToString(n),
     title |-> "Unknown",
     severity |-> Lower(ImpactOf(detector)),
     severity_level_value |-> SeverityToValue(ImpactOf(detector)),
     code_snippet |-> IF detector.has_elements THEN "// In f" ELSE ""]

\* an AttributeError / TypeError is raised somewhere in lines 181-226
ParseRaises(raw_data) ==
    \/ raw_data.type # "object"                 \* raw_data.get on a list, a number, a string
    \/ raw_data.dets_kind = "bad"               \* detectors is not a list of objects
    \/ \E i \in DOMAIN raw_data.dets : raw_data.dets[i].impact = JNull   \* None.lower()
    \/ raw_data.metrics_kind = "bad"            \* metrics is not an object

\* mutant of ParseSlitherOutput: the metrics of the output are not read
ParseSlitherOutputDefaultMetrics(raw_data) ==
    [vulnerabilities |-> [i \in DOMAIN raw_data.dets |-> VulnOfDetector(raw_data.dets[i], i)],
     complexity |-> 5,
     loc |-> 25]

ParseSlitherOutput(raw_data) ==
    [vulnerabilities |-> [i \in DOMAIN raw_data.dets |-> VulnOfDetector(raw_data.dets[i], i)],
     complexity |-> IF raw_data.metrics_kind = "object" THEN raw_data.complexity ELSE 5,
     loc |-> IF raw_data.metrics_kind = "object" THEN raw_data.nLines ELSE 25]

(***************************************************************************)
(* SlitherAnalyzer.analyze_contract                                        *)
(***************************************************************************)
\* tempfile.NamedTemporaryFile(suffix=".sol", delete=False), lines 47-50
CreateTemp(files, n) == files \cup {n}

\* os.unlink(temp_path), lines 88-90
Unlink(files, n) == files \ {n}

\* the temporary files after the n-th call: the file is made, and the finally
\* clause removes it unless the write of line 48 raised before the try block
TempFilesAfter(contract_code, files, n) ==
    IF Encodable(contract_code) THEN Unlink(CreateTemp(files, n), n)
    ELSE CreateTemp(files, n)

AnalysisResult(status, vulns, complexity, loc) ==
    [status |-> status, vulnerabilities |-> vulns, complexity |-> complexity, loc |-> loc]

NoAnalysis == AnalysisResult("none", <<>>, 0, 0)

\* mutant of NoneResult: the default result leaves the Hedera checks out
NoneResultNoChecks(contract_code) ==
    AnalysisResult("returned", <<>>, 5, Len(SplitLines(contract_code)))

\* lines 56-65: Slither gave no result
NoneResult(contract_code) ==
    AnalysisResult("returned", CheckHederaSpecific(contract_code), 5, Len(SplitLines(contract_code)))

\* lines 77-86: an exception inside the try block
ErrorResult(contract_code) ==
    AnalysisResult("returned", <<>>, 5, Len(SplitLines(contract_code)))

\* mutant of ParsedResult: the Hedera checks are put in front
ParsedResultChecksFirst(contract_code, raw_data) ==
    LET result == ParseSlitherOutput(raw_data)
    IN AnalysisResult("returned",
                      CheckHederaSpecific(contract_code) \o result.vulnerabilities,
                      result.complexity, result.loc)

\* lines 67-75: the parsed result with the Hedera checks appended
ParsedResult(contract_code, raw_data) ==
    LET result == ParseSlitherOutput(raw_data)
    IN AnalysisResult("returned",
                      result.vulnerabilities \o CheckHederaSpecific(contract_code),
                      result.complexity, result.loc)

\* mutant of AnalyzeContract: a non-zero exit code of Slither is raised as an
\* error to the caller
AnalyzeContractRaisesOnError(contract_code, p) ==
    IF ~Encodable(contract_code) \/ (p.kind = "completed" /\ p.returncode # 0)
    THEN AnalysisResult("raised", <<>>, 0, 0)
    ELSE LET slither_result == RunSlither(p)
         IN IF slither_result = PyNone THEN NoneResult(contract_code)
            ELSE IF ParseRaises(slither_result) THEN ErrorResult(contract_code)
            ELSE ParsedResult(contract_code, slither_result)

AnalyzeContract(contract_code, p) ==
    IF ~Encodable(contract_code)
    THEN AnalysisResult("raised", <<>>, 0, 0)      \* line 48, outside the try block
    ELSE LET slither_result == RunSlither(p)
         IN IF slither_result = PyNone THEN NoneResult(contract_code)
            ELSE IF ParseRaises(slither_result) THEN ErrorResult(contract_code)
            ELSE ParsedResult(contract_code, slither_result)

(***************************************************************************)
(* contract_metadata.hash: absent (None or ""), the SHA-256 hex digest of  *)
(* a source, or some other non-empty string.                               *)
(***************************************************************************)
NoHash == [kind |-> "none", of |-> <<>>]
OtherHash == [kind |-> "other", of |-> <<>>]

\* hashlib.sha256(contract_code.encode()).hexdigest()
Sha256(contract_code) == [kind |-> "sha256", of |-> contract_code]

(***************************************************************************)
(* Values of the variables an operation has not touched yet.               *)
(***************************************************************************)
NoPv == [status |-> "none", results |-> <<>>]
NoId == "<None>"         \* Python None where an id is expected
NoReport == [status |-> "none", file_id |-> NoId, nft_id |-> NoId]

\* the services main.py holds as module globals, and the threads of the
\* pool that runs the synchronous dependencies of concurrent requests
Services == {"analyzer", "llm_processor"}
Threads == 1..MaxThreads
IdleThread == [pc |-> "idle", service |-> "analyzer", local |-> 0, result |-> 0]

\* the variables only the report step, the dependency providers and the
\* HCS-10 agent write
RestUnchanged == UNCHANGED <<checks, report, instances, built, threads, clock, connections,
                             created>>
NoRecord == [status |-> "none", vulnerabilities |-> <<>>, audit_score |-> 0, passed |-> FALSE]

Idle(who, src, h, vulns, done) ==
    /\ caller = who
    /\ source = src
    /\ hash_supplied = (h # NoHash)       \* contract_metadata.get("hash") is truthy
    /\ proc = NoProc
    /\ analysis = NoAnalysis
    /\ vulnerabilities = vulns
    /\ explanations = <<>>
    /\ fixes = <<>>
    /\ test_cases = <<>>
    /\ idx = 0
    /\ calls = <<>>
    /\ stages = <<>>
    /\ pv = NoPv
    /\ processed = done
    /\ record = NoRecord
    /\ contract_metadata = [hash |-> h]
    /\ temp_files = {}
    /\ ac_calls = 0
    /\ severity_log = <<>>
    /\ checks = <<>>
    /\ report = NoReport
    /\ instances = [s \in Services |-> 0]
    /\ built = [s \in Services |-> 0]
    /\ threads = [t \in Threads |-> IdleThread]
    /\ clock = 0
    /\ connections = <<>>
    /\ created = 0

(***************************************************************************)
(* The adapter on its own: one call of SlitherAnalyzer.analyze_contract    *)
(* on any source, with any behaviour of the subprocess.  When the write to *)
(* the temporary file raises (line 48) the subprocess is never started.    *)
(***************************************************************************)
Init ==
    /\ pc = "ac_call"
    /\ \E src \in Sources : Idle("adapter", src, NoHash, <<>>, <<>>)

AnalyzeCall ==
    /\ pc = "ac_call"
    /\ \E p \in ProcOutcomes(MaxDetectors) :
          /\ proc' = IF Encodable(source) THEN p ELSE NoProc
          /\ analysis' = AnalyzeContract(source, p)
    /\ ac_calls' = ac_calls + 1
    /\ temp_files' = TempFilesAfter(source, temp_files, ac_calls + 1)
    /\ pc' = "ac_done"
    /\ UNCHANGED <<caller, source, hash_supplied, vulnerabilities, explanations, fixes,
                   test_cases, idx, calls, stages, pv, processed, record,
                   contract_metadata, severity_log>>
    /\ RestUnchanged

\* the caller is done with the result of a call
CallReturned ==
    /\ pc = "ac_done"
    /\ pc' = "ac_idle"
    /\ source' = <<>>
    /\ proc' = NoProc
    /\ analysis' = NoAnalysis
    /\ UNCHANGED <<caller, hash_supplied, vulnerabilities, explanations, fixes, test_cases,
                   idx, calls, stages, pv, processed, record, contract_metadata, temp_files,
                   ac_calls, severity_log>>
    /\ RestUnchanged

\* the same analyzer object serves the next request
NewCall ==
    /\ pc = "ac_idle"
    /\ ac_calls < MaxCalls
    /\ \E src \in Sources : source' = src
    /\ pc' = "ac_call"
    /\ UNCHANGED <<caller, hash_supplied, proc, analysis, vulnerabilities, explanations,
                   fixes, test_cases, idx, calls, stages, pv, processed, record,
                   contract_metadata, temp_files, ac_calls, severity_log>>
    /\ RestUnchanged

Next == AnalyzeCall \/ CallReturned \/ NewCall

Spec == Init /\ [][Next]_vars

(***************************************************************************)
(* _check_hedera_specific on its own: one call on any source.              *)
(***************************************************************************)
InitChecks ==
    /\ pc = "hed_call"
    /\ \E src \in CheckSources : Idle("checks", src, NoHash, <<>>, <<>>)

CheckHederaCall ==
    /\ pc = "hed_call"
    /\ checks' = CheckHederaSpecific(source)
    /\ pc' = "hed_done"
    /\ UNCHANGED <<caller, source, hash_supplied, proc, analysis, vulnerabilities,
                   explanations, fixes, test_cases, idx, calls, stages, pv, processed, record,
                   contract_metadata, temp_files, ac_calls, severity_log, report, instances,
                   built, threads, clock, connections, created>>

NextChecks == CheckHederaCall

SpecChecks == InitChecks /\ [][NextChecks]_vars

(***************************************************************************)
(* _severity_to_value on its own: successive calls on any labels.          *)
(***************************************************************************)
InitSeverity ==
    /\ pc = "severity"
    /\ Idle("severity", <<>>, NoHash, <<>>, <<>>)

SeverityToValueCall ==
    /\ pc = "severity"
    /\ Len(severity_log) < MaxCalls
    /\ \E severity \in SeverityLabels :
          severity_log' = Append(severity_log,
                                 [severity |-> severity, value |-> SeverityToValue(severity)])
    /\ UNCHANGED <<pc, caller, source, hash_supplied, proc, analysis, vulnerabilities,
                   explanations, fixes, test_cases, idx, calls, stages, pv, processed, record,
                   contract_metadata, temp_files, ac_calls>>
    /\ RestUnchanged

NextSeverity == SeverityToValueCall

SpecSeverity == InitSeverity /\ [][NextSeverity]_vars

(***************************************************************************)
(* Audit scoring, as each caller of the pipeline computes it.              *)
(***************************************************************************)
HasKey(v, k) == k \in DOMAIN v

\* v.get("severity_level_value", default)
SeverityValue(v, default) ==
    IF HasKey(v, "severity_level_value") THEN v.severity_level_value ELSE default

\* mutant of Penalty: the offset is 4 instead of 5
PenaltyOffByOne(severity_value) == Max(0, 4 - severity_value) * 2

\* max(0, 5 - severity_value) * 2
Penalty(severity_value) == Max(0, 5 - severity_value) * 2

\* sum(... for v in processed_vulnerabilities)
RECURSIVE TotalSeverity(_, _)
TotalSeverity(vulns, default) ==
    IF vulns = <<>> THEN 0
    ELSE Penalty(SeverityValue(Head(vulns), default)) + TotalSeverity(Tail(vulns), default)

\* mutant of AuditScore: the lower clamp is missing
AuditScoreNoFloor(total_severity) == Min(100, 100 - total_severity)

\* max(0, min(100, 100 - total_severity))
AuditScore(total_severity) == Max(0, Min(100, 100 - total_severity))

\* audit_score >= 80
Passed(audit_score) == audit_score >= 80

AuditRecord(vulns, default) ==
    LET audit_score == AuditScore(TotalSeverity(vulns, default))
    IN [status |-> "ok", vulnerabilities |-> vulns,
        audit_score |-> audit_score, passed |-> Passed(audit_score)]

\* main.py lines 381-384: entries without severity_level_value get 2
FillSeverity(vulns) ==
    [i \in DOMAIN vulns |->
        IF HasKey(vulns[i], "severity_level_value") THEN vulns[i]
        ELSE [severity_level_value |-> 2] @@ vulns[i]]

\* POST /analyze, main.py lines 381-398
AnalyzeRecord(vulns) == AuditRecord(FillSeverity(vulns), 2)

\* process_audit_request, main.py lines 630-646
Hcs10Record(vulns) == AuditRecord(vulns, 0)

\* MoonScapeIntegrator.process_audit_request, lines 267-283
MoonScapeRecord(vulns) == AuditRecord(vulns, 0)

\* the scoring step of the running caller
Score ==
    /\ pc = "score"
    /\ record' = CASE caller = "analyze" -> AnalyzeRecord(processed)
                   [] caller = "hcs10" -> Hcs10Record(processed)
                   [] OTHER -> MoonScapeRecord(processed)
    /\ pc' = "done"
    /\ UNCHANGED <<caller, source, hash_supplied, proc, analysis, vulnerabilities,
                   explanations, fixes, test_cases, idx, calls, stages, pv, processed,
                   contract_metadata, temp_files, ac_calls, severity_log>>
    /\ RestUnchanged

(***************************************************************************)
(* Scoring on its own: any vulnerability list, scored by each caller.      *)
(***************************************************************************)
Callers == {"analyze", "hcs10", "moonscape"}

\* severity_level_value of the scored entries: in range, below and above it
ScoreSeverities == {-50, -1, 0, 1, 2, 3, 5, 9}

ScoreVulns ==
    {[id |-> "VULN-1", severity_level_value |-> s] : s \in ScoreSeverities}
    \cup {[id |-> "VULN-1"]}

InitScore ==
    /\ pc = "score"
    /\ \E who \in Callers, vulns \in SeqsUpTo(ScoreVulns, MaxVulns) :
          Idle(who, <<>>, Sha256(<<>>), <<>>, vulns)

NextScore == Score

SpecScore == InitScore /\ [][NextScore]_vars

(***************************************************************************)
(* LLMProcessor: process_vulnerabilities and the LangGraph workflow        *)
(* explain -> fix -> test -> compile.  Each stage walks the vulnerability  *)
(* list; for each entry it formats the prompt (a KeyError when a key the   *)
(* prompt reads is missing) and then calls the model, which returns a text *)
(* or raises.                                                              *)
(***************************************************************************)
\* the text the model returns on its n-th call: opaque to the code, and
\* never the same twice, so that the texts of different calls can be told apart
ModelText(n) == "text-" \o ToString(n)
NoneText == "<None>"     \* Python None in a compiled entry

\* keys the prompt of each stage reads (description is always present)
ExplainKeys == {"id", "title", "severity", "code_snippet"}   \* lines 101-117
FixKeys == {"id", "code_snippet"}                            \* lines 147-162
TestKeys == {"id"}                                           \* lines 192-204

Call(stage, id, text, ok) == [stage |-> stage, id |-> id, text |-> text, ok |-> ok]

Raised == [status |-> "raised", results |-> <<>>]

LLMUnchanged == UNCHANGED <<caller, source, hash_supplied, proc, analysis, vulnerabilities,
                            processed, record, contract_metadata, temp_files, ac_calls,
                            severity_log, checks, report, instances, built, threads, clock,
                            connections, created>>

\* mutant of ProcessVulnerabilities: the empty list is not short-circuited
ProcessVulnerabilitiesNoGuard ==
    /\ pc = "pv_call"
    /\ pc' = "explain"
    /\ idx' = 1
    /\ stages' = Append(stages, "explain")
    /\ UNCHANGED <<pv, explanations, fixes, test_cases, calls>>
    /\ LLMUnchanged

\* process_vulnerabilities, lines 45-59: the empty list returns at once,
\* any other list starts the workflow at its entry point
ProcessVulnerabilities ==
    /\ pc = "pv_call"
    /\ IF vulnerabilities = <<>>
       THEN /\ pv' = [status |-> "returned", results |-> <<>>]
            /\ pc' = "pv_done"
            /\ UNCHANGED <<idx, stages>>
       ELSE /\ pc' = "explain"
            /\ idx' = 1
            /\ stages' = Append(stages, "explain")
            /\ pv' = pv
    /\ UNCHANGED <<explanations, fixes, test_cases, calls>>
    /\ LLMUnchanged

\* mutant of StageStep: a model call that raises is logged and the loop goes
\* on with the next vulnerability
StageStepSkipsFailure(stage, keys, collected, next_stage) ==
    /\ pc = stage
    /\ IF idx > Len(vulnerabilities)
       THEN /\ pc' = next_stage
            /\ idx' = 1
            /\ stages' = Append(stages, next_stage)
            /\ UNCHANGED <<collected, calls, pv>>
       ELSE LET vuln == vulnerabilities[idx] IN
            IF ~(keys \subseteq DOMAIN vuln)
            THEN /\ pv' = Raised
                 /\ pc' = "pv_done"
                 /\ UNCHANGED <<collected, calls, idx, stages>>
            ELSE \/ LET text == ModelText(Len(calls) + 1) IN
                       /\ calls' = Append(calls, Call(stage, vuln.id, text, TRUE))
                       /\ collected' = Append(collected, [id |-> vuln.id, text |-> text])
                       /\ idx' = idx + 1
                       /\ UNCHANGED <<pc, pv, stages>>
                 \/ /\ calls' = Append(calls, Call(stage, vuln.id, NoneText, FALSE))
                    /\ idx' = idx + 1
                    /\ UNCHANGED <<collected, pc, pv, stages>>
    /\ LLMUnchanged

\* one iteration of a stage's loop over state["vulnerabilities"], or the end
\* of the loop and the edge to the next node
StageStep(stage, keys, collected, next_stage) ==
    /\ pc = stage
    /\ IF idx > Len(vulnerabilities)
       THEN /\ pc' = next_stage
            /\ idx' = 1
            /\ stages' = Append(stages, next_stage)
            /\ UNCHANGED <<collected, calls, pv>>
       ELSE LET vuln == vulnerabilities[idx] IN
            IF ~(keys \subseteq DOMAIN vuln)
            THEN /\ pv' = Raised            \* KeyError while formatting the prompt
                 /\ pc' = "pv_done"
                 /\ UNCHANGED <<collected, calls, idx, stages>>
            ELSE \/ LET text == ModelText(Len(calls) + 1) IN
                       /\ calls' = Append(calls, Call(stage, vuln.id, text, TRUE))
                       /\ collected' = Append(collected, [id |-> vuln.id, text |-> text])
                       /\ idx' = idx + 1
                       /\ UNCHANGED <<pc, pv, stages>>
                 \/ /\ calls' = Append(calls, Call(stage, vuln.id, NoneText, FALSE))
                    /\ pv' = Raised         \* the model call raised
                    /\ pc' = "pv_done"
                    /\ UNCHANGED <<collected, idx, stages>>
    /\ LLMUnchanged

\* mutant of GenerateExplanations: the explanation is also written into the
\* vulnerability record it was generated for
GenerateExplanationsInPlace ==
    /\ pc = "explain"
    /\ IF idx > Len(vulnerabilities)
       THEN /\ pc' = "fix"
            /\ idx' = 1
            /\ stages' = Append(stages, "fix")
            /\ UNCHANGED <<explanations, calls, pv, vulnerabilities>>
       ELSE LET vuln == vulnerabilities[idx] IN
            IF ~(ExplainKeys \subseteq DOMAIN vuln)
            THEN /\ pv' = Raised
                 /\ pc' = "pv_done"
                 /\ UNCHANGED <<explanations, calls, idx, stages, vulnerabilities>>
            ELSE \/ LET text == ModelText(Len(calls) + 1) IN
                       /\ calls' = Append(calls, Call("explain", vuln.id, text, TRUE))
                       /\ explanations' = Append(explanations, [id |-> vuln.id, text |-> text])
                       /\ vulnerabilities' = [vulnerabilities EXCEPT
                                                 ![idx] = [explanation |-> text] @@ vuln]
                       /\ idx' = idx + 1
                       /\ UNCHANGED <<pc, pv, stages>>
                 \/ /\ calls' = Append(calls, Call("explain", vuln.id, NoneText, FALSE))
                    /\ pv' = Raised
                    /\ pc' = "pv_done"
                    /\ UNCHANGED <<explanations, idx, stages, vulnerabilities>>
    /\ UNCHANGED <<caller, source, hash_supplied, proc, analysis, processed, record,
                   contract_metadata, temp_files, ac_calls, severity_log, checks, report,
                   instances, built, threads, clock, connections, created>>
    /\ UNCHANGED <<fixes, test_cases>>

\* _generate_explanations, lines 88-132
GenerateExplanations ==
    /\ StageStep("explain", ExplainKeys, explanations, "fix")
    /\ UNCHANGED <<fixes, test_cases>>

\* mutant of GenerateFixes: the edge out of "fix" leads to "compile"
GenerateFixesSkipsTest ==
    /\ StageStep("fix", FixKeys, fixes, "compile")
    /\ UNCHANGED <<explanations, test_cases>>

\* _generate_fixes, lines 134-177
GenerateFixes ==
    /\ StageStep("fix", FixKeys, fixes, "test")
    /\ UNCHANGED <<explanations, test_cases>>

\* _generate_test_cases, lines 179-219
GenerateTestCases ==
    /\ StageStep("test", TestKeys, test_cases, "compile")
    /\ UNCHANGED <<explanations, fixes>>

\* mutant of FirstMatch: the last entry with the id is taken
FirstMatchLast(collected, vuln_id) ==
    IF \E i \in DOMAIN collected : collected[i].id = vuln_id
    THEN LET last == CHOOSE i \in DOMAIN collected :
                         /\ collected[i].id = vuln_id
                         /\ \A j \in (i + 1)..Len(collected) : collected[j].id # vuln_id
         IN collected[last].text
    ELSE NoneText

\* next((e[field] for e in collected if e["id"] == vuln_id), None)
FirstMatch(collected, vuln_id) ==
    IF \E i \in DOMAIN collected : collected[i].id = vuln_id
    THEN LET first == CHOOSE i \in DOMAIN collected :
                          /\ collected[i].id = vuln_id
                          /\ \A j \in 1..(i - 1) : collected[j].id # vuln_id
         IN collected[first].text
    ELSE NoneText

\* {**vuln, "explanation": ..., "fixed_code": ..., "test_case": ...}
Enhanced(vuln, expl, fixd, tests) ==
    [explanation |-> FirstMatch(expl, vuln.id),
     fixed_code |-> FirstMatch(fixd, vuln.id),
     test_case |-> FirstMatch(tests, vuln.id)] @@ vuln

\* _compile_results, lines 221-266, and the return of line 61
CompileResults ==
    /\ pc = "compile"
    /\ pv' = [status |-> "returned",
              results |-> [i \in DOMAIN vulnerabilities |->
                              Enhanced(vulnerabilities[i], explanations, fixes, test_cases)]]
    /\ pc' = "pv_done"
    /\ UNCHANGED <<explanations, fixes, test_cases, idx, calls, stages>>
    /\ LLMUnchanged

(***************************************************************************)
(* The enrichment pipeline on its own: process_vulnerabilities called with *)
(* any list of vulnerability records, with or without a code_snippet.      *)
(***************************************************************************)
LLMVuln(id, snippet) ==
    IF snippet
    THEN [id |-> id, title |-> "Reentrancy", severity |-> "High",
          severity_level_value |-> 3, code_snippet |-> "function withdraw()"]
    ELSE [id |-> id, title |-> "Reentrancy", severity |-> "High",
          severity_level_value |-> 3]

LLMVulns == {LLMVuln(id, snippet) : id \in {"VULN-1", "VULN-2", "HED-002"}, snippet \in BOOLEAN}

InitLLM ==
    /\ pc = "pv_call"
    /\ \E vulns \in SeqsUpTo(LLMVulns, MaxVulns) : Idle("llm", <<>>, Sha256(<<>>), vulns, <<>>)

NextLLM ==
    \/ ProcessVulnerabilities
    \/ GenerateExplanations
    \/ GenerateFixes
    \/ GenerateTestCases
    \/ CompileResults

SpecLLM == InitLLM /\ [][NextLLM]_vars

(***************************************************************************)
(* _compile_results on any workflow state: besides the states the workflow *)
(* itself builds, a state made by _state_dict with side lists of any       *)
(* entries, given straight to the compile node.                            *)
(***************************************************************************)
SideIds == {"VULN-1", "VULN-2"}

\* a side list whose k-th entry has the k-th id and a text of its own
SideList(ids, offset) ==
    [k \in DOMAIN ids |-> [id |-> ids[k], text |-> ModelText(offset + k)]]

InitCompile ==
    /\ pc = "state_dict"
    /\ \E vulns \in SeqsUpTo(LLMVulns, MaxVulns) : Idle("compile", <<>>, Sha256(<<>>), vulns, <<>>)

\* _state_dict, lines 268-285
StateDict ==
    /\ pc = "state_dict"
    /\ \E e, f, t \in SeqsUpTo(SideIds, MaxVulns) :
          /\ explanations' = SideList(e, 0)
          /\ fixes' = SideList(f, 10)
          /\ test_cases' = SideList(t, 20)
    /\ pc' = "compile"
    /\ UNCHANGED <<idx, calls, stages, pv>>
    /\ LLMUnchanged

NextCompile == NextLLM \/ StateDict

SpecCompile == (InitLLM \/ InitCompile) /\ [][NextCompile]_vars

(***************************************************************************)
(* The three callers of the pipeline.  Each runs the adapter, hands a      *)
(* non-empty vulnerability list to process_vulnerabilities, and scores.    *)
(***************************************************************************)
Failure(status) == [status |-> status, vulnerabilities |-> <<>>, audit_score |-> 0, passed |-> FALSE]

CallerUnchanged == UNCHANGED <<caller, source, hash_supplied, explanations, fixes,
                               test_cases, idx, calls, stages, pv, severity_log, checks,
                               report, instances, built, threads, clock, connections, created>>

\* `if vulnerabilities:` call process_vulnerabilities, else go on to the score
Enrich(vulns) ==
    /\ vulnerabilities' = vulns
    /\ IF vulns # <<>>
       THEN pc' = "pv_call" /\ processed' = processed
       ELSE pc' = "score" /\ processed' = <<>>

\* main.py lines 341-344 and 529-532: the hash is computed when the request
\* brought none
RequestHash(metadata, contract_code) ==
    IF metadata.hash = NoHash THEN [metadata EXCEPT !.hash = Sha256(contract_code)]
    ELSE metadata

\* POST /analyze, main.py lines 338-365: the hash, then the adapter; an
\* exception of the adapter is replaced by the default structure
AnalyzeRequest ==
    /\ pc = "request"
    /\ caller = "analyze"
    /\ IF ~hash_supplied /\ ~Encodable(source)
       THEN /\ record' = Failure("http_500")      \* line 343 raises, line 401
            /\ pc' = "done"
            /\ UNCHANGED <<proc, analysis, vulnerabilities, processed, contract_metadata,
                           temp_files, ac_calls>>
       ELSE \E p \in ProcOutcomes(MaxDetectors) :
               LET result == AnalyzeContract(source, p) IN
               /\ contract_metadata' = RequestHash(contract_metadata, source)
               /\ proc' = IF Encodable(source) THEN p ELSE NoProc
               /\ analysis' = result
               /\ ac_calls' = ac_calls + 1
               /\ temp_files' = TempFilesAfter(source, temp_files, ac_calls + 1)
               /\ Enrich(IF result.status = "raised" THEN <<>> ELSE result.vulnerabilities)
               /\ record' = record
    /\ CallerUnchanged

\* POST /analyze, main.py lines 367-379
AnalyzeEnriched ==
    /\ pc = "pv_done"
    /\ caller = "analyze"
    /\ processed' = IF pv.status = "returned" THEN pv.results ELSE vulnerabilities
    /\ pc' = "score"
    /\ UNCHANGED <<proc, analysis, vulnerabilities, record, contract_metadata,
                   temp_files, ac_calls>>
    /\ CallerUnchanged

\* POST /hcs10/audit-request, main.py lines 526-555: the hash, the HCS-10
\* message, and the background task that runs process_audit_request
SendAuditRequest ==
    /\ pc = "send"
    /\ caller = "hcs10"
    /\ IF ~hash_supplied /\ ~Encodable(source)
       THEN /\ record' = Failure("http_500")      \* line 531 raises, line 555
            /\ pc' = "done"
            /\ contract_metadata' = contract_metadata
       ELSE /\ contract_metadata' = RequestHash(contract_metadata, source)
            /\ pc' = "request"
            /\ record' = record
    /\ UNCHANGED <<proc, analysis, vulnerabilities, processed, temp_files, ac_calls>>
    /\ CallerUnchanged

\* the background task process_audit_request, main.py lines 602-613 and 672-685
Hcs10Request ==
    /\ pc = "request"
    /\ caller = "hcs10"
    /\ \E p \in ProcOutcomes(MaxDetectors) :
          LET result == AnalyzeContract(source, p) IN
          /\ proc' = IF Encodable(source) THEN p ELSE NoProc
          /\ analysis' = result
          /\ ac_calls' = ac_calls + 1
          /\ temp_files' = TempFilesAfter(source, temp_files, ac_calls + 1)
          /\ IF result.status = "raised"
             THEN /\ record' = Failure("raised")
                  /\ pc' = "done"
                  /\ UNCHANGED <<vulnerabilities, processed>>
             ELSE /\ Enrich(result.vulnerabilities)
                  /\ record' = record
    /\ contract_metadata' = contract_metadata
    /\ CallerUnchanged

\* process_audit_request, main.py lines 616-628
Hcs10Enriched ==
    /\ pc = "pv_done"
    /\ caller = "hcs10"
    /\ processed' = IF pv.status = "returned" THEN pv.results ELSE vulnerabilities
    /\ pc' = "score"
    /\ UNCHANGED <<proc, analysis, vulnerabilities, record, contract_metadata,
                   temp_files, ac_calls>>
    /\ CallerUnchanged

\* MoonScapeIntegrator.process_audit_request, lines 246-256 and 317-325
MoonScapeRequest ==
    /\ pc = "request"
    /\ caller = "moonscape"
    /\ \E p \in ProcOutcomes(MaxDetectors) :
          LET result == AnalyzeContract(source, p) IN
          /\ proc' = IF Encodable(source) THEN p ELSE NoProc
          /\ analysis' = result
          /\ ac_calls' = ac_calls + 1
          /\ temp_files' = TempFilesAfter(source, temp_files, ac_calls + 1)
          /\ IF result.status = "raised"
             THEN /\ record' = Failure("raised")
                  /\ pc' = "done"
                  /\ UNCHANGED <<vulnerabilities, processed>>
             ELSE /\ Enrich(result.vulnerabilities)
                  /\ record' = record
    /\ contract_metadata' = contract_metadata
    /\ CallerUnchanged

\* MoonScapeIntegrator.process_audit_request, lines 258-265: the call is not
\* guarded, an exception reaches the handler of lines 317-325
MoonScapeEnriched ==
    /\ pc = "pv_done"
    /\ caller = "moonscape"
    /\ IF pv.status = "returned"
       THEN /\ processed' = pv.results
            /\ pc' = "score"
            /\ record' = record
       ELSE /\ record' = Failure("raised")
            /\ pc' = "done"
            /\ processed' = processed
    /\ UNCHANGED <<proc, analysis, vulnerabilities, contract_metadata, temp_files, ac_calls>>
    /\ CallerUnchanged

\* the variables the report steps leave alone
ReportUnchanged ==
    UNCHANGED <<caller, source, hash_supplied, proc, analysis, vulnerabilities,
                explanations, fixes, test_cases, idx, calls, stages, pv, processed,
                contract_metadata, temp_files, ac_calls, severity_log, checks,
                instances, built, threads, clock, connections, created>>

\* the file is stored, and an NFT is minted if the audit data say passed
Reported(passed, file_id, nft_id) ==
    [status |-> "ok", file_id |-> file_id, nft_id |-> IF passed THEN nft_id ELSE NoId]

ReportFailed == [status |-> "raised", file_id |-> NoId, nft_id |-> NoId]

\* audit_score of the audit data a client submits: AuditResponse takes any int
ReportScores == {-1, 0, 79, 80, 100, 101}

\* POST /generate-report, main.py lines 404-450: the audit data are the
\* client's, audit_score and passed are two fields of AuditResponse; an
\* exception of generate_pdf, store_pdf or mint_audit_nft becomes HTTP 500
GenerateReport ==
    /\ pc = "report_request"
    /\ caller = "report"
    /\ \E audit_score \in ReportScores, passed \in BOOLEAN :
          /\ record' = [status |-> "ok", vulnerabilities |-> <<>>,
                        audit_score |-> audit_score, passed |-> passed]
          /\ \/ report' = Reported(passed, "0.0.file", "0.0.nft")
             \/ report' = ReportFailed
    /\ pc' = "reported"
    /\ ReportUnchanged

\* process_audit_request, main.py lines 647-670: the report of the audit
\* record just scored; an exception of generate_pdf or send_audit_result is
\* raised again
Hcs10Report ==
    /\ pc = "done"
    /\ caller = "hcs10"
    /\ record.status = "ok"
    /\ \/ report' = Reported(record.passed, "0.0.1file", "0.0.1nft")
       \/ report' = ReportFailed
    /\ pc' = "reported"
    /\ record' = record
    /\ ReportUnchanged

InitApi ==
    \/ \E who \in Callers, src \in ApiSources :
       \E h \in {NoHash, Sha256(src), OtherHash} :
          /\ who = "moonscape" => h = Sha256(src)
          /\ pc = IF who = "hcs10" THEN "send" ELSE "request"
          /\ Idle(who, src, h, <<>>, <<>>)
    \/ /\ pc = "report_request"
       /\ Idle("report", <<>>, NoHash, <<>>, <<>>)

NextApi ==
    \/ AnalyzeRequest
    \/ SendAuditRequest
    \/ AnalyzeEnriched
    \/ Hcs10Request
    \/ Hcs10Enriched
    \/ MoonScapeRequest
    \/ MoonScapeEnriched
    \/ ProcessVulnerabilities
    \/ GenerateExplanations
    \/ GenerateFixes
    \/ GenerateTestCases
    \/ CompileResults
    \/ Score
    \/ GenerateReport
    \/ Hcs10Report

SpecApi == InitApi /\ [][NextApi]_vars

(***************************************************************************)
(* get_analyzer and get_llm_processor.  Both are synchronous dependencies, *)
(* so the server runs each resolution on a thread of its pool, and a       *)
(* thread may be preempted between any two of: the test of the global, the *)
(* construction, the store into the global, the read for the return.  An   *)
(* object is named by its rank among the objects built for its service.    *)
(***************************************************************************)
SingletonUnchanged ==
    UNCHANGED <<pc, caller, source, hash_supplied, proc, analysis, vulnerabilities,
                explanations, fixes, test_cases, idx, calls, stages, pv, processed, record,
                contract_metadata, temp_files, ac_calls, severity_log, checks, report,
                clock, connections, created>>

\* a request resolves Depends(get_analyzer) or Depends(get_llm_processor)
Request(t) ==
    /\ threads[t].pc \in {"idle", "returned", "raised"}
    /\ \E s \in Services :
          threads' = [threads EXCEPT ![t] = [pc |-> "check", service |-> s,
                                             local |-> 0, result |-> 0]]
    /\ UNCHANGED <<instances, built>>
    /\ SingletonUnchanged

\* if _slither_analyzer is not None:
CheckGlobal(t) ==
    /\ threads[t].pc = "check"
    /\ threads' = [threads EXCEPT ![t].pc =
                      IF instances[threads[t].service] # 0 THEN "return" ELSE "construct"]
    /\ UNCHANGED <<instances, built>>
    /\ SingletonUnchanged

\* os.getenv(...), HTTPException(500) when the variable is not set,
\* otherwise SlitherAnalyzer(...) / LLMProcessor(...)
Construct(t) ==
    /\ threads[t].pc = "construct"
    /\ \/ /\ threads' = [threads EXCEPT ![t].pc = "raised"]
          /\ UNCHANGED built
       \/ LET s == threads[t].service IN
            /\ built' = [built EXCEPT ![s] = @ + 1]
            /\ threads' = [threads EXCEPT ![t].pc = "assign", ![t].local = built[s] + 1]
    /\ UNCHANGED instances
    /\ SingletonUnchanged

\* _slither_analyzer = <the new object>
AssignGlobal(t) ==
    /\ threads[t].pc = "assign"
    /\ instances' = [instances EXCEPT ![threads[t].service] = threads[t].local]
    /\ threads' = [threads EXCEPT ![t].pc = "return"]
    /\ UNCHANGED built
    /\ SingletonUnchanged

\* return _slither_analyzer
ReturnGlobal(t) ==
    /\ threads[t].pc = "return"
    /\ threads' = [threads EXCEPT ![t].pc = "returned",
                                  ![t].result = instances[threads[t].service]]
    /\ UNCHANGED <<instances, built>>
    /\ SingletonUnchanged

InitSingleton ==
    /\ pc = "serving"
    /\ Idle("server", <<>>, NoHash, <<>>, <<>>)

NextSingleton ==
    \E t \in Threads :
        \/ Request(t)
        \/ CheckGlobal(t)
        \/ Construct(t)
        \/ AssignGlobal(t)
        \/ ReturnGlobal(t)

SpecSingleton == InitSingleton /\ [][NextSingleton]_vars

(***************************************************************************)
(* HCS10Agent.create_connection over HederaService.create_connection_topic.*)
(* The clock is the wall clock in whole seconds, counted from the start.   *)
(***************************************************************************)
Accounts == {"0.0.1001", "0.0.1002"}

AgentUnchanged ==
    UNCHANGED <<caller, source, hash_supplied, proc, analysis, vulnerabilities,
                explanations, fixes, test_cases, idx, calls, stages, pv, processed, record,
                contract_metadata, temp_files, ac_calls, severity_log, checks, report,
                instances, built, threads>>

\* a second passes
Tick ==
    /\ clock < MaxClock
    /\ clock' = clock + 1
    /\ UNCHANGED <<pc, connections, created>>
    /\ AgentUnchanged

\* create_connection_topic, integrator.py lines 295-338: the id is the
\* current second; the topic is the one made for this call
CreateConnectionTopic(connected_account_id) ==
    [connection_topic_id |-> created + 1,
     connection_id |-> clock,
     connected_account_id |-> connected_account_id]

\* self.connections[connection["connection_id"]] = connection
StoreConnection(conns, connection) ==
    [id \in DOMAIN conns \cup {connection.connection_id} |->
        IF id = connection.connection_id THEN connection ELSE conns[id]]

\* create_connection, hcs10_agent.py lines 113-132; create_topic and
\* submit_message may raise, and then nothing is stored
CreateConnection ==
    /\ created < MaxConnections
    /\ \/ /\ pc' = "cc_raised"
          /\ UNCHANGED <<connections, created>>
       \/ \E account_id \in Accounts :
            /\ connections' = StoreConnection(connections, CreateConnectionTopic(account_id))
            /\ created' = created + 1
            /\ pc' = "cc_returned"
    /\ UNCHANGED clock
    /\ AgentUnchanged

InitAgent ==
    /\ pc = "agent"
    /\ Idle("agent", <<>>, NoHash, <<>>, <<>>)

NextAgent == Tick \/ CreateConnection

SpecAgent == InitAgent /\ [][NextAgent]_vars

(***************************************************************************)
(* Properties.                                                             *)
(***************************************************************************)
IdsOf(vulns) == {vulns[i].id : i \in DOMAIN vulns}

\* the domain checks that apply to a source, by their ids
ApplicableChecks(src) ==
    {id \in {"HED-001", "HED-002", "HED-003"} :
        \/ id = "HED-001" /\ \A i \in DOMAIN src : src[i] \notin {"associateToken", "TokenAssociate"}
        \/ id = "HED-002" /\ (\E i \in DOMAIN src : src[i] = "payable")
                          /\ (\A i \in DOMAIN src : src[i] # "require(msg.value")
        \/ id = "HED-003" /\ (\E i \in DOMAIN src : src[i] = "block.timestamp")
                          /\ (\A i \in DOMAIN src : src[i] # "ConsensusTimestamp")}

\* the number of newline-delimited lines of a source
LineCount(src) ==
    Cardinality({i \in DOMAIN src : src[i] = "NL"})
    + (IF src # <<>> /\ src[Len(src)] # "NL" THEN 1 ELSE 0)

Scored == pc = "done" /\ record.status = "ok"

\* C1: for every vulnerability list (any length, any integer
\* severity_level_value, entries without the value) the audit record has an
\* integer audit_score with 0 <= audit_score <= 100, and passed is true
\* exactly when audit_score >= 80.
C1_ScoreInRange ==
    Scored => /\ record.audit_score \in 0..100
              /\ record.passed = (record.audit_score >= 80)

\* C1 witness: a list with an out-of-range value and an entry without the
\* value has been scored, and the lower clamp has acted.
C1_Witness ==
    /\ Scored
    /\ record.audit_score = 0
    /\ ~record.passed
    /\ \E i \in DOMAIN processed : ~HasKey(processed[i], "severity_level_value")
    /\ \E i \in DOMAIN processed :
          HasKey(processed[i], "severity_level_value") /\ processed[i].severity_level_value < 0

SeveritiesInRange(vulns) ==
    \A i \in DOMAIN vulns :
        HasKey(vulns[i], "severity_level_value") /\ vulns[i].severity_level_value \in 0..3

CountSeverity(vulns, k) ==
    Cardinality({i \in DOMAIN vulns : vulns[i].severity_level_value = k})

\* C2: for every list whose entries carry severity_level_value in {0,1,2,3}
\* the score is max(0, min(100, 100 - penalties)) where each High (3) costs 4,
\* Medium (2) costs 6, Low (1) costs 8 and Informational (0) costs 10; the
\* empty list scores 100 and passes, a single High finding scores 96.
C2_ScoreFormula ==
    (Scored /\ SeveritiesInRange(processed)) =>
        /\ record.audit_score =
              Max(0, Min(100, 100 - (  4 * CountSeverity(processed, 3)
                                     + 6 * CountSeverity(processed, 2)
                                     + 8 * CountSeverity(processed, 1)
                                     + 10 * CountSeverity(processed, 0))))
        /\ (processed = <<>> => record.audit_score = 100 /\ record.passed)
        /\ (Len(processed) = 1 /\ processed[1].severity_level_value = 3
               => record.audit_score = 96)

\* C2 witness: a single High finding has been scored 96.
C2_Witness ==
    /\ Scored
    /\ processed = <<[id |-> "VULN-1", severity_level_value |-> 3]>>
    /\ record.audit_score = 96

\* C3: analyze_contract never propagates an exception to its caller, for any
\* string input and any behaviour of the external analyzer: every call
\* returns a result.
C3_NeverRaises ==
    pc = "ac_done" => analysis.status = "returned"

\* the analyzer failure modes of C4: executable missing (exit code 127 or
\* FileNotFoundError), non-zero exit with empty stdout, timeout, and stdout
\* that is not well-formed JSON
AnalyzerFailed(p) ==
    \/ p.kind \in {"timeout", "not_found"}
    \/ p.kind = "completed" /\ p.returncode = 127
    \/ p.kind = "completed" /\ p.returncode # 0 /\ p.stdout.form \in {"empty", "blank"}
    \/ p.kind = "completed" /\ p.stdout.form = "text"

C5_LocIsLineCount ==
    (pc = "ac_done" /\ analysis.status = "returned") => analysis.loc = LineCount(source)

\* C6: for every source that contains "payable" and not "require(msg.value",
\* the vulnerabilities returned by analyze_contract include HED-002, in every
\* analyzer outcome.
C6_UnsafeHbarAlwaysReported ==
    (/\ pc = "ac_done"
     /\ analysis.status = "returned"
     /\ Contains(source, "payable")
     /\ ~Contains(source, "require(msg.value"))
        => "HED-002" \in IdsOf(analysis.vulnerabilities)

DistinctIds(vulns) == \A i, j \in DOMAIN vulns : i # j => vulns[i].id # vulns[j].id

CallsOf(stage) == {i \in DOMAIN calls : calls[i].stage = stage}

\* the text the model returned for an id in a stage
Returned(stage, id, text) ==
    \E i \in CallsOf(stage) : calls[i].ok /\ calls[i].id = id /\ calls[i].text = text

\* C7: for N >= 1 vulnerabilities with distinct ids and model calls that all
\* succeed, process_vulnerabilities issues exactly N model calls in each of
\* explain, fix and test (none in compile) and returns N entries; entry i has
\* the id and all original fields of input entry i plus explanation,
\* fixed_code and test_case equal to the texts the model returned for that id
\* in the explain, fix and test stage.
C7_EnrichmentComplete ==
    (/\ pc = "pv_done"
     /\ vulnerabilities # <<>>
     /\ DistinctIds(vulnerabilities)
     /\ \A i \in DOMAIN calls : calls[i].ok)
        => /\ pv.status = "returned"
           /\ Len(pv.results) = Len(vulnerabilities)
           /\ \A stage \in {"explain", "fix", "test"} :
                 Cardinality(CallsOf(stage)) = Len(vulnerabilities)
           /\ CallsOf("compile") = {}
           /\ \A i \in DOMAIN vulnerabilities :
                 /\ \A k \in DOMAIN vulnerabilities[i] : pv.results[i][k] = vulnerabilities[i][k]
                 /\ Returned("explain", vulnerabilities[i].id, pv.results[i].explanation)
                 /\ Returned("fix", vulnerabilities[i].id, pv.results[i].fixed_code)
                 /\ Returned("test", vulnerabilities[i].id, pv.results[i].test_case)

\* C8: process_vulnerabilities called with an empty list returns [] at once:
\* no model call is issued and none of the four stages is entered.
C8_EmptyListShortCircuit ==
    vulnerabilities = <<>> =>
        /\ pc \in {"pv_call", "pv_done"}
        /\ calls = <<>>
        /\ stages = <<>>
        /\ (pc = "pv_done" => pv = [status |-> "returned", results |-> <<>>])

\* C8 witness: a call with the empty list has returned.
C8_Witness ==
    /\ caller = "llm"
    /\ vulnerabilities = <<>>
    /\ pc = "pv_done"
    /\ pv.status = "returned"

\* C9: whenever process_vulnerabilities raises because a model call failed,
\* each caller (POST /analyze, the HCS-10 background process_audit_request,
\* MoonScapeIntegrator.process_audit_request) falls back to the unenriched
\* list of the adapter and still produces a scored audit record from it.
C9_CallersFallBack ==
    (/\ pc = "done"
     /\ pv.status = "raised"
     /\ calls # <<>>
     /\ ~calls[Len(calls)].ok)
        => /\ record.status = "ok"
           /\ record.vulnerabilities = vulnerabilities

\* C10: for every outcome of the analyzer step, analyze_contract raising
\* included, POST /analyze responds successfully with an audit record whose
\* vulnerabilities contain the domain-check findings applicable to the
\* submitted source.
C10_AnalyzeAlwaysAnswers ==
    (pc = "done" /\ caller = "analyze" /\ analysis.status # "none")
        => /\ record.status = "ok"
           /\ ApplicableChecks(source) \subseteq IdsOf(record.vulnerabilities)

\* C11: a list of one entry that has no severity_level_value is scored 90 by
\* POST /analyze and by the HCS-10 background audit alike: the missing value
\* counts as 0 (penalty 10), and nothing is raised.
C11_MissingSeverityScores90 ==
    (/\ pc = "done"
     /\ caller \in {"analyze", "hcs10"}
     /\ Len(processed) = 1
     /\ ~HasKey(processed[1], "severity_level_value"))
        => /\ record.status = "ok"
           /\ record.audit_score = 90

\* the scenario of C12: "payable" and other text, no "require(msg.value", no
\* association marker, no "block.timestamp"
PayableScenario(src) ==
    /\ Contains(src, "payable")
    /\ Contains(src, "x")
    /\ \A i \in DOMAIN src : src[i] \in {"payable", "x", "NL"}

RecordBy(who, vulns) ==
    CASE who = "analyze" -> AnalyzeRecord(vulns)
      [] who = "hcs10" -> Hcs10Record(vulns)
      [] OTHER -> MoonScapeRecord(vulns)

\* C13: audit_score and passed are a pure function of the vulnerability
\* list: every place that scores the same list yields the same audit_score
\* and passed, and recomputing from the vulnerabilities of a returned record
\* yields that record's audit_score again.
C13_ScoringIsPure ==
    Scored =>
        /\ \A who \in Callers :
              /\ RecordBy(who, processed).audit_score = record.audit_score
              /\ RecordBy(who, processed).passed = record.passed
        /\ \A who \in Callers :
              RecordBy(who, record.vulnerabilities).audit_score = record.audit_score

\* C14: _severity_to_value maps "High" to 3, "Medium" to 2, "Low" to 1,
\* "Informational" to 0 and every other string, labels in another case
\* included, to 0; the result is always in {0,1,2,3}.
C14_SeverityMapping ==
    \A i \in DOMAIN severity_log :
        LET call == severity_log[i] IN
        /\ call.value \in {0, 1, 2, 3}
        /\ (call.severity = "High" => call.value = 3)
        /\ (call.severity = "Medium" => call.value = 2)
        /\ (call.severity = "Low" => call.value = 1)
        /\ (call.severity \notin {"High", "Medium", "Low"} => call.value = 0)

\* C14 witness: "High" has been mapped to 3 and then "high" to 0.
C14_Witness ==
    /\ Len(severity_log) = 2
    /\ severity_log[1] = [severity |-> "High", value |-> 3]
    /\ severity_log[2] = [severity |-> "high", value |-> 0]

\* C15: for every vulnerability returned by analyze_contract, severity is one
\* of High, Medium, Low, Informational and severity_level_value is
\* severity_to_value of that vulnerability's own severity.
C15_CanonicalSeverity ==
    (pc = "ac_done" /\ analysis.status = "returned") =>
        \A i \in DOMAIN analysis.vulnerabilities :
            LET v == analysis.vulnerabilities[i] IN
            /\ v.severity \in {"High", "Medium", "Low", "Informational"}
            /\ v.severity_level_value = SeverityToValue(v.severity)

HedIds == {"HED-001", "HED-002", "HED-003"}

\* positions of the analyzer-derived findings in a list
AnalyzerPart(vulns) == {i \in DOMAIN vulns : vulns[i].id \notin HedIds}

\* C16: in the result of analyze_contract the analyzer-derived findings come
\* in the analyzer's emission order and every domain-check finding comes
\* after them; process_vulnerabilities returns the entries in the order of
\* its input; so the audit record keeps this order.
C16_OrderPreserved ==
    /\ analysis.status = "returned" =>
          LET v == analysis.vulnerabilities
              k == Cardinality(AnalyzerPart(v))
              dets == RunSlither(proc).dets
          IN /\ AnalyzerPart(v) = 1..k
             /\ k \in {0, Len(dets)}
             /\ \A i \in 1..k :
                   /\ v[i].severity = Lower(ImpactOf(dets[i]))
                   /\ (v[i].code_snippet # "") = dets[i].has_elements
    /\ (pc = "pv_done" /\ pv.status = "returned") =>
          /\ Len(pv.results) = Len(vulnerabilities)
          /\ \A i \in DOMAIN vulnerabilities : pv.results[i].id = vulnerabilities[i].id
    /\ Scored =>
          /\ Len(record.vulnerabilities) = Len(analysis.vulnerabilities)
          /\ \A i \in DOMAIN analysis.vulnerabilities :
                /\ record.vulnerabilities[i].id = analysis.vulnerabilities[i].id
                /\ record.vulnerabilities[i].severity = analysis.vulnerabilities[i].severity

\* C16 witness: two analyzer findings of different severity have been
\* enriched and scored, and the record holds them in the emission order.
C16_Witness ==
    /\ Scored
    /\ pv.status = "returned"
    /\ Len(proc.stdout.doc.dets) = 2
    /\ proc.stdout.doc.dets[1].impact = Absent
    /\ proc.stdout.doc.dets[2].impact = "High"
    /\ Len(record.vulnerabilities) = 2
    /\ record.vulnerabilities[1].severity = "medium"
    /\ record.vulnerabilities[2].severity = "high"
    /\ HasKey(record.vulnerabilities[2], "explanation")

\* C17: no two vulnerabilities of one analyze_contract call share an id: the
\* k-th analyzer finding has id VULN-k and the domain-check findings have
\* the ids HED-001, HED-002, HED-003, each at most once.
C17_UniqueIds ==
    (pc = "ac_done" /\ analysis.status = "returned") =>
        LET v == analysis.vulnerabilities IN
        /\ DistinctIds(v)
        /\ \A i \in DOMAIN v : v[i].id \in HedIds \/ v[i].id = "VULN-" \o ToString(i)

\* C17 witness: a result with two analyzer findings and two domain-check
\* findings.
C17_Witness ==
    /\ pc = "ac_done"
    /\ IdsOf(analysis.vulnerabilities) = {"VULN-1", "VULN-2", "HED-001", "HED-002"}
    /\ Len(analysis.vulnerabilities) = 4

\* C18: in every audit record returned by the request handler,
\* contract_metadata.hash is the SHA-256 hex digest of the contract_code of
\* that request, whether or not the caller supplied a hash.
C18_HashIsDigest ==
    (Scored /\ caller \in {"analyze", "hcs10"}) => contract_metadata.hash = Sha256(source)

\* C19: every temporary source file made by an analyze_contract call is
\* removed by the time the call ends, on every exit path: after any sequence
\* of calls no temporary file of a finished call exists.
C19_TempFilesRemoved ==
    pc \in {"ac_call", "ac_done", "ac_idle"} => temp_files = {}

C21_SuccessUsesOutputMetrics ==
    (/\ pc = "ac_done"
     /\ proc.kind = "completed"
     /\ proc.returncode = 0
     /\ proc.stdout.form = "json"
     /\ proc.stdout.doc.type = "object"
     /\ proc.stdout.doc.dets_kind = "list"
     /\ proc.stdout.doc.metrics_kind = "object"
     /\ \A i \in DOMAIN proc.stdout.doc.dets : proc.stdout.doc.dets[i].impact # JNull)
        => /\ analysis.status = "returned"
           /\ Cardinality(AnalyzerPart(analysis.vulnerabilities)) = Len(proc.stdout.doc.dets)
           /\ IdsOf(analysis.vulnerabilities) \cap HedIds = ApplicableChecks(source)
           /\ Len(analysis.vulnerabilities)
                 = Len(proc.stdout.doc.dets) + Cardinality(ApplicableChecks(source))
           /\ analysis.complexity = proc.stdout.doc.complexity
           /\ analysis.loc = proc.stdout.doc.nLines

\* C21 witness: exit code 0, one High detector and a metrics object, for a
\* payable source of one line: two HED- findings follow the analyzer's, and
\* loc is the nLines of the output.
C21_Witness ==
    /\ pc = "ac_done"
    /\ proc.kind = "completed"
    /\ proc.returncode = 0
    /\ proc.stdout.doc.metrics_kind = "object"
    /\ Len(proc.stdout.doc.dets) = 1
    /\ source = <<"payable">>
    /\ IdsOf(analysis.vulnerabilities) = {"VULN-1", "HED-001", "HED-002"}
    /\ analysis.complexity = 2
    /\ analysis.loc = 20

\* C22: exit code 127 yields no analyzer findings; any other non-zero exit
\* with empty stdout yields no analyzer findings; a non-zero exit with
\* non-empty, parseable stdout is parsed and every finding in it is reported
\* exactly as for exit code 0; a timeout yields no analyzer findings.
C22_ExitClassification ==
    (pc = "ac_done" /\ analysis.status = "returned") =>
        /\ (proc.kind = "completed" /\ proc.returncode = 127)
              => AnalyzerPart(analysis.vulnerabilities) = {}
        /\ (proc.kind = "completed" /\ proc.returncode # 0 /\ ~StripNonEmpty(proc.stdout))
              => AnalyzerPart(analysis.vulnerabilities) = {}
        /\ (proc.kind = "completed" /\ proc.returncode \notin {0, 127}
                /\ proc.stdout.form = "json")
              => analysis = AnalyzeContract(source, [proc EXCEPT !.returncode = 0])
        /\ proc.kind = "timeout" => AnalyzerPart(analysis.vulnerabilities) = {}

\* C22 witness: Slither exited with code 1 and printed JSON with two
\* detectors, and both findings are reported.
C22_Witness ==
    /\ pc = "ac_done"
    /\ proc.kind = "completed"
    /\ proc.returncode = 1
    /\ proc.stdout.form = "json"
    /\ Len(proc.stdout.doc.dets) = 2
    /\ AnalyzerPart(analysis.vulnerabilities) = {1, 2}

\* C23: the three domain checks are decided independently: the call returns
\* HED-001 exactly when the source has neither "associateToken" nor
\* "TokenAssociate", HED-002 exactly when it has "payable" and not
\* "require(msg.value", HED-003 exactly when it has "block.timestamp" and not
\* "ConsensusTimestamp"; in all eight combinations every applicable finding
\* is present, none is cut off by another.
C23_ChecksIndependent ==
    pc = "hed_done" =>
        /\ ("HED-001" \in IdsOf(checks))
              = (~Contains(source, "associateToken") /\ ~Contains(source, "TokenAssociate"))
        /\ ("HED-002" \in IdsOf(checks))
              = (Contains(source, "payable") /\ ~Contains(source, "require(msg.value"))
        /\ ("HED-003" \in IdsOf(checks))
              = (Contains(source, "block.timestamp") /\ ~Contains(source, "ConsensusTimestamp"))
        /\ IdsOf(checks) \subseteq HedIds
        /\ DistinctIds(checks)

\* C23 witness: a source with an association marker, "payable" and
\* "block.timestamp": HED-001 does not apply and the two other findings are
\* both returned.
C23_Witness ==
    /\ pc = "hed_done"
    /\ Contains(source, "associateToken")
    /\ IdsOf(checks) = {"HED-002", "HED-003"}
    /\ Len(checks) = 2

StageRank(stage) ==
    CASE stage = "explain" -> 1
      [] stage = "fix" -> 2
      [] stage = "test" -> 3
      [] OTHER -> 4

AllCallsOf(stage) ==
    /\ Cardinality(CallsOf(stage)) = Len(vulnerabilities)
    /\ \A i \in CallsOf(stage) : calls[i].ok

\* C24: each invocation on a non-empty list runs EXPLAIN, FIX, TEST, COMPILE
\* in this order, each once: every explain call comes before any fix call,
\* every fix call before any test call, compile runs only after all test
\* calls have returned; no stage is skipped or repeated.
C24_StageOrder ==
    /\ \A i, j \in DOMAIN calls : i < j => StageRank(calls[i].stage) <= StageRank(calls[j].stage)
    /\ CallsOf("compile") = {}
    /\ \E k \in 0..4 : stages = SubSeq(<<"explain", "fix", "test", "compile">>, 1, k)
    /\ pc \in {"explain", "fix", "test", "compile"} => stages[Len(stages)] = pc
    /\ pc \in {"fix", "test", "compile"} => AllCallsOf("explain")
    /\ pc \in {"test", "compile"} => AllCallsOf("fix")
    /\ pc = "compile" => AllCallsOf("test")
    /\ (pc = "pv_done" /\ pv.status = "returned" /\ vulnerabilities # <<>>) =>
          /\ stages = <<"explain", "fix", "test", "compile">>
          /\ AllCallsOf("explain") /\ AllCallsOf("fix") /\ AllCallsOf("test")

\* C24 witness: an invocation on two vulnerabilities has returned after six
\* model calls and the four stages.
C24_Witness ==
    /\ caller = "llm"
    /\ pc = "pv_done"
    /\ pv.status = "returned"
    /\ Len(vulnerabilities) = 2
    /\ Len(calls) = 6
    /\ stages = <<"explain", "fix", "test", "compile">>

\* C25: if a model call raises during explain, fix or test,
\* process_vulnerabilities raises to its caller: the failed call is not
\* issued again, no later model call is made, and no later stage runs.
C25_FailurePropagates ==
    \A i \in DOMAIN calls :
        ~calls[i].ok =>
            /\ i = Len(calls)
            /\ pc = "pv_done"
            /\ pv.status = "raised"
            /\ stages[Len(stages)] = calls[i].stage

\* C25 witness: the second call of the fix stage raised, after three calls
\* that returned.
C25_Witness ==
    /\ caller = "llm"
    /\ Len(calls) = 4
    /\ calls[3].ok
    /\ calls[4].stage = "fix"
    /\ ~calls[4].ok
    /\ pv.status = "raised"

\* the index of the first entry of a list with the id, 0 when there is none
FirstIndex(list, id) ==
    IF \E j \in DOMAIN list : list[j].id = id
    THEN CHOOSE j \in DOMAIN list :
            /\ list[j].id = id
            /\ \A k \in DOMAIN list : list[k].id = id => j <= k
    ELSE 0

\* what a lookup by id in a side list gives: the first match, or null
Lookup(list, id) ==
    IF FirstIndex(list, id) = 0 THEN NoneText ELSE list[FirstIndex(list, id)].text

\* C26: when input vulnerabilities share an id, compile still emits one
\* entry per input entry, and every entry with that id gets the explanation,
\* fixed_code and test_case generated for the first entry with that id; a
\* lookup that finds no match yields null, not an error.
C26_FirstMatchWins ==
    (pc = "pv_done" /\ pv.status = "returned") =>
        /\ Len(pv.results) = Len(vulnerabilities)
        /\ \A i \in DOMAIN vulnerabilities :
              LET id == vulnerabilities[i].id
                  first == FirstIndex(vulnerabilities, id)
                  n == Len(vulnerabilities)
              IN /\ pv.results[i].id = id
                 /\ pv.results[i].explanation = Lookup(explanations, id)
                 /\ pv.results[i].fixed_code = Lookup(fixes, id)
                 /\ pv.results[i].test_case = Lookup(test_cases, id)
                 /\ caller = "llm" =>
                       /\ pv.results[i].explanation = calls[first].text
                       /\ pv.results[i].fixed_code = calls[n + first].text
                       /\ pv.results[i].test_case = calls[2 * n + first].text

\* C26 witness: two vulnerabilities with the same id were compiled against
\* two explanations with that id and no fix: both get the first explanation
\* and a null fixed_code.
C26_Witness ==
    /\ caller = "compile"
    /\ pc = "pv_done"
    /\ Len(vulnerabilities) = 2
    /\ vulnerabilities[1].id = "VULN-1"
    /\ vulnerabilities[2].id = "VULN-1"
    /\ Len(explanations) = 2
    /\ explanations[2].id = "VULN-1"
    /\ explanations[1].text # explanations[2].text
    /\ pv.results[1].explanation = explanations[1].text
    /\ pv.results[2].explanation = explanations[1].text
    /\ pv.results[2].fixed_code = NoneText

\* C27: under any interleaving of concurrent requests get_analyzer builds at
\* most one SlitherAnalyzer and get_llm_processor at most one LLMProcessor,
\* and every call of each returns that one object.
C27_SingleInstance ==
    \A s \in Services :
        /\ built[s] <= 1
        /\ \A t \in Threads :
              (threads[t].pc = "returned" /\ threads[t].service = s) => threads[t].result = 1

\* C30: every create_connection that returns stores its connection under an
\* id no stored connection uses: after k such calls the agent holds k
\* connections.
C30_ConnectionsDistinct ==
    Cardinality(DOMAIN connections) = created

EnrichmentKeys == {"explanation", "fixed_code", "test_case"}

\* C28: process_vulnerabilities never modifies the records it is given, so
\* when a model call fails the list the caller falls back to carries no
\* explanation, fixed_code or test_case of the failed run: the fallback
\* records are exactly those the adapter returned.
C28_FallbackUntouched ==
    /\ pc \in {"pv_call", "explain", "fix", "test", "compile", "pv_done"} =>
          vulnerabilities = analysis.vulnerabilities
    /\ (pc = "score" /\ pv.status = "raised" /\ caller \in {"analyze", "hcs10"}) =>
          /\ processed = analysis.vulnerabilities
          /\ \A i \in DOMAIN processed : DOMAIN processed[i] \cap EnrichmentKeys = {}

\* C28 witness: POST /analyze has fallen back to the adapter's records after
\* a model call that returned and one that raised.
C28_Witness ==
    /\ caller = "analyze"
    /\ pc = "score"
    /\ pv.status = "raised"
    /\ Len(calls) >= 2
    /\ calls[1].ok
    /\ ~calls[Len(calls)].ok
    /\ processed = analysis.vulnerabilities

\* C29: an NFT is produced only for an audit whose audit_score is at least
\* 80: POST /generate-report mints only for such audit data, and in the
\* HCS-10 background audit nft_id is non-null exactly when audit_score >= 80.
C29_NftOnlyFromScore80 ==
    /\ report.nft_id # NoId => record.audit_score >= 80
    /\ (caller = "hcs10" /\ report.status = "ok") =>
          (report.nft_id # NoId <=> record.audit_score >= 80)

====
